---- MODULE Spec2Model ----
(***************************************************************************)
(* The Flask audio-denoiser service of api_server.py: the process-wide     *)
(* device, the three routes, and the /denoise handler with its temporary   *)
(* files, taken statement by statement so that concurrent requests         *)
(* interleave at every filesystem call.                                    *)
(***************************************************************************)
EXTENDS Integers, Sequences, FiniteSets, TLC

\* ------------------------------------------------------------- bounds
\* Names tempfile can draw: a name is free when no file of that name exists.
\* Four let two requests hold their input and output files at once.
NumPaths == 4

\* Python's None, and a local name that is not bound yet.
None == 0

\* The /denoise requests in flight on the threaded server. Requests meet only
\* in the temporary directory, where a further request can do no more than
\* occupy names; a pair of requests and a directory that can fill up show
\* every way two calls can interfere.
Requests == {1, 2}
Paths == 1..NumPaths

\* ------------------------------------------------------------- inputs
\* Sample rates an upload or the denoiser's result may have.
SampleRates == {16000, 44100}

\* Filenames, one character per element.
Filenames ==
  { << >>,
    <<"a", ".", "w", "a", "v">>,
    <<".", ".", "/", "B", ".", "W", "a", "V", "E">>,
    <<"n", ".", "t", "x", "t">>,
    <<"a", "w", "a", "v">> }

\* ------------------------------------------------------------- strings
\* str.lower() on one character.
LowerChar(c) ==
  CASE c = "A" -> "a"
    [] c = "B" -> "b"
    [] c = "E" -> "e"
    [] c = "V" -> "v"
    [] c = "W" -> "w"
    [] OTHER -> c

\* str.lower()
Lower(s) == [i \in 1..Len(s) |-> LowerChar(s[i])]

\* str.endswith(suffix)
EndsWith(s, suffix) ==
  /\ Len(s) >= Len(suffix)
  /\ SubSeq(s, Len(s) - Len(suffix) + 1, Len(s)) = suffix

\* The tuple of suffixes of line 56.
WavSuffixes == { <<".", "w", "a", "v">>, <<".", "w", "a", "v", "e">> }

\* A suffix test that forgets the dot: 'wav' and 'wave'.
HasWavExtension_NoDot(filename) ==
  \E suffix \in WavSuffixes : EndsWith(Lower(filename), Tail(suffix))

\* file.filename.lower().endswith(('.wav', '.wave'))
HasWavExtension(filename) ==
  \E suffix \in WavSuffixes : EndsWith(Lower(filename), suffix)

\* werkzeug's secure_filename, on the characters above: path separators
\* become blanks, blank-separated words are joined by "_", characters outside
\* [A-Za-z0-9_.-] are dropped, and leading and trailing "." and "_" are
\* stripped.
IsSep(c) == c = "/"
IsBlank(c) == c = " "
IsSafeChar(c) ==
  c \in {"a", "b", "c", "e", "n", "t", "v", "w", "x",
         "A", "B", "E", "V", "W", ".", "_", "-"}

ReplaceSeps(s) == [i \in 1..Len(s) |-> IF IsSep(s[i]) THEN " " ELSE s[i]]

RECURSIVE LTrimBlanks(_)
LTrimBlanks(s) ==
  IF s # << >> /\ IsBlank(Head(s)) THEN LTrimBlanks(Tail(s)) ELSE s

RECURSIVE RTrimBlanks(_)
RTrimBlanks(s) ==
  IF s # << >> /\ IsBlank(s[Len(s)])
  THEN RTrimBlanks(SubSeq(s, 1, Len(s) - 1)) ELSE s

RECURSIVE CollapseBlanks(_)
\* Every run of blanks inside s becomes one "_".
CollapseBlanks(s) ==
  IF s = << >> THEN << >>
  ELSE IF IsBlank(Head(s))
       THEN (IF Len(s) > 1 /\ IsBlank(s[2]) THEN << >> ELSE <<"_">>) \o
            CollapseBlanks(Tail(s))
       ELSE <<Head(s)>> \o CollapseBlanks(Tail(s))

\* "_".join(s.split())
JoinWords(s) == CollapseBlanks(RTrimBlanks(LTrimBlanks(s)))

RECURSIVE StripUnsafe(_)
StripUnsafe(s) ==
  IF s = << >> THEN << >>
  ELSE (IF IsSafeChar(Head(s)) THEN <<Head(s)>> ELSE << >>) \o
       StripUnsafe(Tail(s))

IsDotOrUnderscore(c) == c \in {".", "_"}

RECURSIVE LStrip(_)
LStrip(s) ==
  IF s # << >> /\ IsDotOrUnderscore(Head(s)) THEN LStrip(Tail(s)) ELSE s

RECURSIVE RStrip(_)
RStrip(s) ==
  IF s # << >> /\ IsDotOrUnderscore(s[Len(s)])
  THEN RStrip(SubSeq(s, 1, Len(s) - 1)) ELSE s

secure_filename(filename) ==
  RStrip(LStrip(StripUnsafe(JoinWords(ReplaceSeps(filename)))))

DenoisedPrefix == <<"d", "e", "n", "o", "i", "s", "e", "d", "_">>

\* f"denoised_{secure_filename(file.filename)}"
DownloadName(filename) == DenoisedPrefix \o secure_filename(filename)

\* ------------------------------------------------------------- state
VARIABLES
  device,    \* the module-level device, set when the module is loaded
  disk,      \* the temporary directory: name -> file
  pc,        \* each request's position in denoise_audio
  request,   \* each request's upload: request.files
  locals,    \* each call's local variables
  pending,   \* the return value or exception a call carries through finally
  resp,      \* the response each call returned
  hist,      \* what each call did (history, read by the properties only)
  info       \* the device / or /health reported first, and their last answer

vars == <<device, disk, pc, request, locals, pending, resp, hist, info>>

\* A name of the temporary directory under which no file exists.
Absent == [owner |-> None, kind |-> "absent", rate |-> None]

\* The locals of denoise_audio before any is bound.
NoLocals ==
  [temp_input |-> None, temp_input_path |-> None,
   temp_output |-> None, temp_output_path |-> None, sample_rate |-> None]

NoRequest == [hasFile |-> FALSE, filename |-> << >>]
NoPending == [kind |-> "none"]
NoResp == [status |-> None]

\* log: the call's filesystem events in order; denoiseDevice, denoised, new_sr:
\* the denoiser's argument and result; raised: the exception that left the try
\* blocks; planned: the outcome pending when finally was entered; foreign:
\* whether the call touched a file another call created.
NoHist ==
  [log |-> << >>, unlinkFailed |-> FALSE,
   denoiseDevice |-> "", denoised |-> "not called", new_sr |-> None,
   raised |-> "", planned |-> NoResp, foreign |-> FALSE]

\* jsonify({"error": msg}), status
JsonError(status, msg) ==
  [status |-> status, error |-> msg, attachment |-> FALSE,
   name |-> << >>, mime |-> "application/json", rate |-> None]

\* send_file(path, as_attachment=True, download_name=..., mimetype='audio/wav')
\* over the file it opened.
FileResponse(filename, file) ==
  [status |-> 200, error |-> << >>, attachment |-> TRUE,
   name |-> DownloadName(filename), mime |-> "audio/wav", rate |-> file.rate]

\* Validation without lines 55-57.
ValidationError_NoExtensionCheck(hasFile, filename) ==
  IF ~hasFile THEN <<"No file provided">>
  ELSE IF filename = << >> THEN <<"No file selected">>
  ELSE << >>

\* Lines 46-57: the message of the first check that fails, << >> when none does.
ValidationError(hasFile, filename) ==
  IF ~hasFile THEN <<"No file provided">>
  ELSE IF filename = << >> THEN <<"No file selected">>
  ELSE IF ~HasWavExtension(filename) THEN <<"Only WAV files are supported">>
  ELSE << >>

\* Line 69 without its status: Flask then answers 200.
ProcessingFailure_NoStatus ==
  JsonError(200, <<"Failed to process the audio file">>)

\* Line 69: the answer to a denoiser that returned no signal.
ProcessingFailure == JsonError(500, <<"Failed to process the audio file">>)

\* An outer handler that drops str(e).
ExceptResponse_NoText(text) == JsonError(500, <<"Internal server error">>)

\* Lines 94-98: the outer handler's response to an exception.
ExceptResponse(text) == JsonError(500, <<"Internal server error: ", text>>)

\* The response a call leaves with: its pending return value, or the outer
\* handler's answer to its pending exception.
Outcome(p) == IF p.kind = "raise" THEN ExceptResponse(p.text) ELSE p.resp

\* A name generator that does not look at the directory.
FreeNames_NoExcl == Paths

\* NamedTemporaryFile draws names until one does not exist (O_EXCL).
FreeNames == {p \in Paths : disk[p].kind = "absent"}

\* A device chosen at the call instead of the module-level one.
FnDevice_Cpu == "cpu"

\* The device read by _fn (line 30).
FnDevice == device

\* _fn handing back the rate torchaudio.load read.
FnSampleRate_Input(sr, new_sr) == sr

\* Line 34: what _fn hands back of the denoiser's result.
FnSampleRate(sr, new_sr) == new_sr

\* A finally block without the except clause: OSError replaces what is pending.
SwallowOSError_Propagates(p) == [kind |-> "raise", text |-> "OSError"]

\* Lines 91-92: the pending outcome after os.unlink raised OSError.
SwallowOSError(p) == p

Init ==
  /\ device \in {"cuda", "cpu"}
  /\ disk = [p \in Paths |-> Absent]
  /\ pc = [r \in Requests |-> "idle"]
  /\ request = [r \in Requests |-> NoRequest]
  /\ locals = [r \in Requests |-> NoLocals]
  /\ pending = [r \in Requests |-> NoPending]
  /\ resp = [r \in Requests |-> NoResp]
  /\ hist = [r \in Requests |-> NoHist]
  /\ info = [first |-> "", last |-> [status |-> None]]

\* The call returns: its locals go out of scope.
Return(r, response) ==
  /\ pc' = [pc EXCEPT ![r] = "returned"]
  /\ resp' = [resp EXCEPT ![r] = response]
  /\ locals' = [locals EXCEPT ![r] = NoLocals]
  /\ pending' = [pending EXCEPT ![r] = NoPending]

\* An exception outside the inner try: straight to the outer handler.
RaiseOuter(r, text) ==
  /\ Return(r, ExceptResponse(text))
  /\ hist' = [hist EXCEPT ![r].raised = text]

\* Control enters the finally block with p pending.
EnterFinally(r, p) ==
  /\ pc' = [pc EXCEPT ![r] = "unlink_input"]
  /\ pending' = [pending EXCEPT ![r] = p]

\* Whether the file under name p was created by another call.
Foreign(r, p) == disk[p].kind # "absent" /\ disk[p].owner # r

\* The file a write through name p leaves: an existing file keeps its creator.
Written(r, p, kind, rate) ==
  [owner |-> IF disk[p].kind = "absent" THEN r ELSE disk[p].owner,
   kind |-> kind, rate |-> rate]

Logged(r, event) == Append(hist[r].log, event)

\* ------------------------------------------------------------- /denoise
\* Lines 44-57: the request arrives and is validated.
Validate(r) ==
  /\ pc[r] = "idle"
  /\ \E hasFile \in BOOLEAN, filename \in Filenames :
       /\ hasFile \/ filename = << >>
       /\ request' = [request EXCEPT
                        ![r] = [hasFile |-> hasFile, filename |-> filename]]
       /\ LET err == ValidationError(hasFile, filename)
          IN  IF err # << >>
              THEN Return(r, JsonError(400, err))
              ELSE /\ pc' = [pc EXCEPT ![r] = "create_input"]
                   /\ UNCHANGED <<resp, locals, pending>>
  /\ UNCHANGED <<device, disk, hist, info>>

\* Line 60: tempfile.NamedTemporaryFile(delete=False, suffix='.wav').
CreateInput(r) ==
  /\ pc[r] = "create_input"
  /\ \/ \E p \in FreeNames :
          /\ disk' = [disk EXCEPT ![p] = [owner |-> r, kind |-> "empty",
                                          rate |-> None]]
          /\ locals' = [locals EXCEPT ![r].temp_input = p]
          /\ hist' = [hist EXCEPT ![r].log = Logged(r, "create_input"),
                                  ![r].foreign = @ \/ Foreign(r, p)]
          /\ pc' = [pc EXCEPT ![r] = "save_input"]
          /\ UNCHANGED <<pending, resp>>
     \/ /\ RaiseOuter(r, "NamedTemporaryFile failed")
        /\ UNCHANGED disk
  /\ UNCHANGED <<device, request, info>>

\* Lines 61-62: file.save(temp_input.name); temp_input_path = temp_input.name.
\* The upload's sample rate is not kept with the file: it is drawn when
\* torchaudio.load reads it (CallFn).
\* The with block closes the file and, delete=False, leaves it in place.
SaveInput(r) ==
  /\ pc[r] = "save_input"
  /\ LET p == locals[r].temp_input
     IN  \/ /\ disk' = [disk EXCEPT ![p] = Written(r, p, "upload", None)]
            /\ locals' = [locals EXCEPT ![r].temp_input_path = p]
            /\ hist' = [hist EXCEPT ![r].log = Logged(r, "save_input"),
                                    ![r].foreign = @ \/ Foreign(r, p)]
            /\ pc' = [pc EXCEPT ![r] = "call_fn"]
            /\ UNCHANGED <<pending, resp>>
         \/ /\ RaiseOuter(r, "file.save failed")
            /\ UNCHANGED disk
  /\ UNCHANGED <<device, request, info>>

\* Lines 66-69 with _fn (lines 22-34): torchaudio.load, denoise, and the
\* check of its result. The path handed to _fn is always bound, so the
\* branch of line 24 is not taken; a null signal comes from denoise itself.
CallFn(r) ==
  /\ pc[r] = "call_fn"
  /\ LET p == locals[r].temp_input_path
     IN  \/ \* torchaudio.load raises
            /\ EnterFinally(r, [kind |-> "raise", text |-> "torchaudio.load failed"])
            /\ hist' = [hist EXCEPT
                          ![r].raised = "torchaudio.load failed",
                          ![r].planned = ExceptResponse("torchaudio.load failed")]
            /\ UNCHANGED locals
         \/ \* denoise raises
            /\ disk[p].kind # "absent"
            /\ EnterFinally(r, [kind |-> "raise", text |-> "denoise failed"])
            /\ hist' = [hist EXCEPT
                          ![r].log = Logged(r, "load"),
                          ![r].foreign = @ \/ Foreign(r, p),
                          ![r].denoiseDevice = FnDevice,
                          ![r].denoised = "raised",
                          ![r].raised = "denoise failed",
                          ![r].planned = ExceptResponse("denoise failed")]
            /\ UNCHANGED locals
         \/ \* denoise returns no signal: line 69
            /\ disk[p].kind # "absent"
            /\ LET answer == ProcessingFailure
               IN  /\ EnterFinally(r, [kind |-> "return", resp |-> answer])
                   /\ hist' = [hist EXCEPT
                                 ![r].log = Logged(r, "load"),
                                 ![r].foreign = @ \/ Foreign(r, p),
                                 ![r].denoiseDevice = FnDevice,
                                 ![r].denoised = "null",
                                 ![r].planned = answer]
            /\ UNCHANGED locals
         \/ \* load decodes the upload at sr, denoise returns a signal at new_sr
            /\ disk[p].kind # "absent"
            /\ \E sr \in SampleRates, new_sr \in SampleRates :
                 /\ locals' = [locals EXCEPT
                                 ![r].sample_rate = FnSampleRate(sr, new_sr)]
                 /\ hist' = [hist EXCEPT
                               ![r].log = Logged(r, "load"),
                               ![r].foreign = @ \/ Foreign(r, p),
                               ![r].denoiseDevice = FnDevice,
                               ![r].denoised = "signal",
                               ![r].new_sr = new_sr]
            /\ pc' = [pc EXCEPT ![r] = "create_output"]
            /\ UNCHANGED pending
  /\ UNCHANGED <<device, disk, request, resp, info>>

\* Line 72: tempfile.NamedTemporaryFile(delete=False, suffix='.wav').
CreateOutput(r) ==
  /\ pc[r] = "create_output"
  /\ \/ \E p \in FreeNames :
          /\ disk' = [disk EXCEPT ![p] = [owner |-> r, kind |-> "empty",
                                          rate |-> None]]
          /\ locals' = [locals EXCEPT ![r].temp_output = p]
          /\ hist' = [hist EXCEPT ![r].log = Logged(r, "create_output"),
                                  ![r].foreign = @ \/ Foreign(r, p)]
          /\ pc' = [pc EXCEPT ![r] = "save_output"]
          /\ UNCHANGED pending
     \/ /\ EnterFinally(r, [kind |-> "raise", text |-> "NamedTemporaryFile failed"])
        /\ hist' = [hist EXCEPT
                      ![r].raised = "NamedTemporaryFile failed",
                      ![r].planned = ExceptResponse("NamedTemporaryFile failed")]
        /\ UNCHANGED <<disk, locals>>
  /\ UNCHANGED <<device, request, resp, info>>

\* Lines 74-75: torchaudio.save(temp_output.name, denoised_audio[None],
\* sample_rate); temp_output_path = temp_output.name. When save raises, the
\* name temp_output_path is never bound.
SaveOutput(r) ==
  /\ pc[r] = "save_output"
  /\ LET p == locals[r].temp_output
     IN  \/ /\ disk' = [disk EXCEPT
                          ![p] = Written(r, p, "wav", locals[r].sample_rate)]
            /\ locals' = [locals EXCEPT ![r].temp_output_path = p]
            /\ hist' = [hist EXCEPT ![r].log = Logged(r, "save_output"),
                                    ![r].foreign = @ \/ Foreign(r, p)]
            /\ pc' = [pc EXCEPT ![r] = "send_file"]
            /\ UNCHANGED pending
         \/ /\ EnterFinally(r, [kind |-> "raise", text |-> "torchaudio.save failed"])
            /\ hist' = [hist EXCEPT
                          ![r].raised = "torchaudio.save failed",
                          ![r].planned = ExceptResponse("torchaudio.save failed")]
            /\ UNCHANGED <<disk, locals>>
  /\ UNCHANGED <<device, request, resp, info>>

\* A send_file that opens the file only when the body is sent.
SendFile_Lazy(r) ==
  /\ pc[r] = "send_file"
  /\ LET p == locals[r].temp_output_path
     IN  \/ /\ disk[p].kind # "absent"
            /\ LET answer == FileResponse(request[r].filename, disk[p])
               IN  /\ EnterFinally(r, [kind |-> "return", resp |-> answer])
                   /\ hist' = [hist EXCEPT ![r].planned = answer]
         \/ /\ EnterFinally(r, [kind |-> "raise", text |-> "send_file failed"])
            /\ hist' = [hist EXCEPT
                          ![r].raised = "send_file failed",
                          ![r].planned = ExceptResponse("send_file failed")]
  /\ UNCHANGED <<device, disk, request, locals, resp, info>>

\* Lines 78-83: send_file opens the file and builds the response around the
\* open handle; the return value is pending while finally runs.
SendFile(r) ==
  /\ pc[r] = "send_file"
  /\ LET p == locals[r].temp_output_path
     IN  \/ /\ disk[p].kind # "absent"
            /\ LET answer == FileResponse(request[r].filename, disk[p])
               IN  /\ EnterFinally(r, [kind |-> "return", resp |-> answer])
                   /\ hist' = [hist EXCEPT ![r].log = Logged(r, "open"),
                                           ![r].foreign = @ \/ Foreign(r, p),
                                           ![r].planned = answer]
         \/ /\ EnterFinally(r, [kind |-> "raise", text |-> "send_file failed"])
            /\ hist' = [hist EXCEPT
                          ![r].raised = "send_file failed",
                          ![r].planned = ExceptResponse("send_file failed")]
  /\ UNCHANGED <<device, disk, request, locals, resp, info>>

\* Line 89: 'temp_output_path' in locals()
OutputPathBound(l) == l.temp_output_path # None

\* Lines 87-88 and 91-92: os.unlink(temp_input_path). It raises OSError when
\* the file is gone already (line 92: "File might already be deleted"), removed
\* from outside the process; the except clause then skips line 90.
UnlinkInput(r) ==
  /\ pc[r] = "unlink_input"
  /\ LET p == locals[r].temp_input_path
     IN  /\ disk' = [disk EXCEPT ![p] = Absent]
         /\ \/ /\ disk[p].kind # "absent"
               /\ hist' = [hist EXCEPT ![r].log = Logged(r, "unlink_input"),
                                       ![r].foreign = @ \/ Foreign(r, p)]
               /\ IF OutputPathBound(locals[r])
                  THEN /\ pc' = [pc EXCEPT ![r] = "unlink_output"]
                       /\ UNCHANGED <<locals, pending, resp>>
                  ELSE Return(r, Outcome(pending[r]))
            \/ /\ hist' = [hist EXCEPT ![r].log = Logged(r, "unlink_input"),
                                       ![r].unlinkFailed = TRUE]
               /\ Return(r, Outcome(SwallowOSError(pending[r])))
  /\ UNCHANGED <<device, request, info>>

\* Lines 89-92: os.unlink(temp_output_path), when that name is bound.
UnlinkOutput(r) ==
  /\ pc[r] = "unlink_output"
  /\ LET p == locals[r].temp_output_path
     IN  /\ disk' = [disk EXCEPT ![p] = Absent]
         /\ \/ /\ disk[p].kind # "absent"
               /\ hist' = [hist EXCEPT ![r].log = Logged(r, "unlink_output"),
                                       ![r].foreign = @ \/ Foreign(r, p)]
               /\ Return(r, Outcome(pending[r]))
            \/ /\ hist' = [hist EXCEPT ![r].log = Logged(r, "unlink_output"),
                                       ![r].unlinkFailed = TRUE]
               /\ Return(r, Outcome(SwallowOSError(pending[r])))
  /\ UNCHANGED <<device, request, info>>

\* After denoise_audio has returned, the server sends the response; the body
\* of an attachment is read from the handle send_file opened, which on POSIX
\* stays readable after the name has been unlinked.
Deliver(r) ==
  /\ pc[r] = "returned"
  /\ pc' = [pc EXCEPT ![r] = "done"]
  /\ hist' = [hist EXCEPT ![r].log = Logged(r, "deliver")]
  /\ UNCHANGED <<device, disk, request, locals, pending, resp, info>>

\* ------------------------------------------------------------- / and /health
\* Lines 36-39.
HealthPayload == [status |-> 200, body |-> "healthy", device |-> device]

\* Lines 100-111.
RootPayload == [status |-> 200, body |-> "Audio Denoiser API", device |-> device]

Answered(payload) ==
  /\ info' = [first |-> IF info.first = "" THEN payload.device ELSE info.first,
              last |-> [status |-> payload.status, device |-> payload.device]]
  /\ UNCHANGED <<device, disk, pc, request, locals, pending, resp, hist>>

health_check == Answered(HealthPayload)

root == Answered(RootPayload)

\* ------------------------------------------------------------- specification
\* One step of one /denoise request.
denoise_audio ==
  \E r \in Requests :
    \/ Validate(r)
    \/ CreateInput(r)
    \/ SaveInput(r)
    \/ CallFn(r)
    \/ CreateOutput(r)
    \/ SaveOutput(r)
    \/ SendFile(r)
    \/ UnlinkInput(r)
    \/ UnlinkOutput(r)
    \/ Deliver(r)

\* Concurrent /denoise requests.
Next == denoise_audio

Spec == Init /\ [][Next]_vars

\* Concurrent /, /health and /denoise requests.
NextRoutes ==
  \/ denoise_audio
  \/ health_check
  \/ root

SpecRoutes == Init /\ [][NextRoutes]_vars

\* ------------------------------------------------------------- properties
\* denoise_audio has returned for request r.
Finished(r) == pc[r] \in {"returned", "done"}

Events(r) == {hist[r].log[i] : i \in 1..Len(hist[r].log)}

\* The place of event e, which occurs, in r's log.
Pos(r, e) == CHOOSE i \in 1..Len(hist[r].log) : hist[r].log[i] = e

\* The temporary files request r created that exist.
OwnFiles(r) == {p \in Paths : disk[p].kind # "absent" /\ disk[p].owner = r}

NameA == <<"a", ".", "w", "a", "v">>
NameB == <<".", ".", "/", "B", ".", "W", "a", "V", "E">>
NameTxt == <<"n", ".", "t", "x", "t">>

\* C1: after a /denoise call has returned, no temporary file the call
\* created exists, whichever way the call ended.
C1_NoTempFileRemains ==
  \A r \in Requests : Finished(r) => OwnFiles(r) = {}

\* The filename ends, whatever its case, in .wav or .wave.
C2_IsWavName(f) ==
  \E n \in {4, 5} :
    /\ Len(f) >= n
    /\ Lower(SubSeq(f, Len(f) - n + 1, Len(f))) \in WavSuffixes

\* C2: a request without the file part is answered 400 "No file provided", one
\* with an empty filename 400 with an error, one whose filename does not end
\* in .wav or .wave 400 "Only WAV files are supported"; the first check that
\* fails decides the message.
C2_InvalidInputGets400 ==
  \A r \in Requests :
    pc[r] # "idle" =>
      LET q == request[r]
      IN  /\ ~q.hasFile =>
               /\ Finished(r)
               /\ resp[r].status = 400
               /\ resp[r].error = <<"No file provided">>
          /\ (q.hasFile /\ q.filename = << >>) =>
               /\ Finished(r)
               /\ resp[r].status = 400
               /\ resp[r].error # << >>
               /\ resp[r].error # <<"No file provided">>
          /\ (q.hasFile /\ q.filename # << >> /\ ~C2_IsWavName(q.filename)) =>
               /\ Finished(r)
               /\ resp[r].status = 400
               /\ resp[r].error = <<"Only WAV files are supported">>

C2_Witness ==
  \E r1, r2 \in Requests :
    /\ Finished(r1) /\ ~request[r1].hasFile /\ resp[r1].status = 400
    /\ Finished(r2) /\ request[r2].filename = NameTxt /\ resp[r2].status = 400

\* The request violates an input constraint of /denoise.
C3_Invalid(q) ==
  \/ ~q.hasFile
  \/ q.filename = << >>
  \/ ~C2_IsWavName(q.filename)

\* C3: a request rejected by validation creates, reads, writes and deletes no
\* temporary file, and the denoiser is not called for it.
C3_RejectedTouchesNothing ==
  \A r \in Requests :
    (pc[r] # "idle" /\ C3_Invalid(request[r])) =>
      /\ Events(r) \subseteq {"deliver"}
      /\ hist[r].denoised = "not called"
      /\ OwnFiles(r) = {}

C3_Witness ==
  \E r1, r2 \in Requests :
    /\ pc[r1] = "done" /\ request[r1].filename = NameTxt
    /\ pc[r2] = "send_file" /\ OwnFiles(r2) # {}

C5_NoFailureEscapes ==
  \A r \in Requests :
    /\ Finished(r) <=> resp[r] # NoResp
    /\ Finished(r) =>
         /\ resp[r].status \in {200, 400, 500}
         /\ hist[r].raised # "" =>
              /\ resp[r].status = 500
              /\ ~resp[r].attachment
              /\ Len(resp[r].error) = 2
              /\ resp[r].error[2] = hist[r].raised

C5_Witness ==
  \E r1, r2 \in Requests :
    /\ Finished(r1) /\ hist[r1].raised = "send_file failed"
    /\ Finished(r2) /\ hist[r2].raised = "file.save failed"

\* The attachment's name for each valid filename of the model.
C6_ExpectedName(filename) ==
  IF filename = NameA
  THEN <<"d", "e", "n", "o", "i", "s", "e", "d", "_", "a", ".", "w", "a", "v">>
  ELSE <<"d", "e", "n", "o", "i", "s", "e", "d", "_", "B", ".", "W", "a", "V", "E">>

\* C6: when the denoiser returns a signal and no step raises, the call answers
\* 200 with an audio/wav attachment named denoised_<sanitized filename>,
\* encoded at the rate the denoiser returned.
C6_SuccessResponse ==
  \A r \in Requests :
    (Finished(r) /\ hist[r].denoised = "signal" /\ hist[r].raised = "") =>
      /\ resp[r].status = 200
      /\ resp[r].attachment
      /\ resp[r].mime = "audio/wav"
      /\ resp[r].name = C6_ExpectedName(request[r].filename)
      /\ resp[r].rate = hist[r].new_sr

C6_Witness ==
  \E r1, r2 \in Requests :
    /\ pc[r1] = "done" /\ resp[r1].status = 200
    /\ request[r1].filename = NameA /\ resp[r1].rate = 16000
    /\ pc[r2] = "done" /\ resp[r2].status = 200
    /\ request[r2].filename = NameB /\ resp[r2].rate = 44100

C8_DeviceFixed ==
  /\ info.last.status # None =>
       /\ info.last.status = 200
       /\ info.last.device = info.first
       /\ \A r \in Requests : hist[r].denoiseDevice \in {"", info.first}
  /\ \A r1, r2 \in Requests :
       (hist[r1].denoiseDevice # "" /\ hist[r2].denoiseDevice # "") =>
         hist[r1].denoiseDevice = hist[r2].denoiseDevice

C8_Witness ==
  /\ info.last.status = 200
  /\ info.first = "cuda"
  /\ \E r1, r2 \in Requests :
       /\ pc[r1] = "done" /\ resp[r1].status = 200
       /\ Finished(r2) /\ hist[r2].raised = "denoise failed"

\* The names request r still passes to the filesystem.
LivePaths(r) ==
  CASE pc[r] = "save_input" -> {locals[r].temp_input}
    [] pc[r] \in {"call_fn", "create_output"} -> {locals[r].temp_input_path}
    [] pc[r] = "save_output" ->
         {locals[r].temp_input_path, locals[r].temp_output}
    [] pc[r] = "send_file" ->
         {locals[r].temp_input_path, locals[r].temp_output_path}
    [] pc[r] = "unlink_input" ->
         {locals[r].temp_input_path} \cup
         (IF OutputPathBound(locals[r]) THEN {locals[r].temp_output_path} ELSE {})
    [] pc[r] = "unlink_output" -> {locals[r].temp_output_path}
    [] OTHER -> {}

C10_UnlinkErrorSwallowed ==
  \A r \in Requests :
    (Finished(r) /\ hist[r].unlinkFailed) => resp[r] = hist[r].planned

C10_Witness ==
  \E r1, r2 \in Requests :
    /\ Finished(r1) /\ hist[r1].unlinkFailed /\ resp[r1].status = 200
    /\ Finished(r2) /\ hist[r2].unlinkFailed /\ resp[r2].status = 500

====
